---- MODULE Spec2Model ----
(***************************************************************************)
(* A model of bundlemaker.py: the interactive acquisition session of       *)
(* main(), the checkpoint written by save_state / atomic_write_text and    *)
(* read back by load_state, and the bundle assembled on termination.       *)
(*                                                                         *)
(* Indices are 0-based as in the Python source; the element of a sequence  *)
(* s at Python index i is s[i + 1].                                        *)
(***************************************************************************)
EXTENDS Integers, Sequences, FiniteSets, TLC

(***************************************************************************)
(* Bounds of the model.                                                    *)
(***************************************************************************)
\* number of paths in the inventory of the session
NumFiles == 2
\* number of distinct content strings a Content Source can supply
NumContents == 2
\* number of interrupt signals (SIGINT) delivered to one run of main()
MaxInterrupts == 1

(***************************************************************************)
(* Program constants.                                                      *)
(***************************************************************************)
MODE_AUTO == "auto"
MODE_PASTE == "paste"
MODE_HYBRID == "hybrid"
MODES == <<MODE_HYBRID, MODE_PASTE, MODE_AUTO>>

\* generate_files returns sorted(out): an inventory is a sorted list of
\* distinct relative paths.
AllPaths == <<"a.py", "b.sql", "c.js", "d.h">>
Inventory == SubSeq(AllPaths, 1, NumFiles)

\* Content strings are sequences of characters.
ContentPool == << <<"X", "\n">>, <<"Y">>, <<>>, <<"X", "\n", "Y">> >>
ContentValues == {ContentPool[k] : k \in 1..NumContents}

\* The lines sys.stdin.readline() can return during a capture (the end
\* marker and end-of-stream are the CaptureEnd action).
LineValues == { <<"X", "\n">>, <<"Y">> }

\* Reasons auto_read_file gives when it returns no content.
FailReasons == {"not-found", "binary-detected(NULL)"}

\* Scan-root lists of a run, and the common root compute_rel_root gives.
ScanRoots == <<"/p">>
ScanRootChoices == { <<"/p">>, <<"/p/a", "/p/b">>, <<"/q">> }

NoIdx == -1
EmptyMap == [p \in {} |-> <<>>]

VARIABLES
    files,                \* main: files (the inventory of the run)
    scan_dirs_abs,        \* main: scan_dirs_abs
    mode,                 \* main: mode
    done,                 \* main: done
    contents,             \* main: contents
    cursor,               \* main: cursor
    show_remaining_only,  \* main: show_remaining_only
    next_action_override, \* main: next_action_override ("none", "a", "p")
    idx,                  \* main: idx of the entry selected by the command
    action,               \* main: action of the command ("none", "a", "p")
    cmd,                  \* main: cmd, the command line being processed
    lines,                \* capture_section: "".join(lines) captured so far
    pc,                   \* position of the process
    in_handler,           \* inside "except KeyboardInterrupt"
    interrupts,           \* interrupt signals delivered to this run
    state_file,           \* the file STATE_FILE on disk
    tmp_file,             \* the file STATE_FILE.tmp.<pid> of this run
    bundle,               \* the file BUNDLE_NAME written by this run
    last,                 \* history: how the loop came back to the prompt
    supplied,             \* history: content last supplied for each path
    loaded                \* result of the load_state call under SpecResume

vars == <<files, scan_dirs_abs, mode, done, contents, cursor,
          show_remaining_only, next_action_override, idx, action, cmd, lines,
          pc, in_handler, interrupts, state_file, tmp_file, bundle, last,
          supplied, loaded>>

session == <<done, contents, cursor, show_remaining_only, mode>>
locals == <<idx, action, cmd, lines>>
disk == <<state_file, tmp_file, bundle>>

\* cmd = read_cmd(), as main() parses it (lines 703-755): its kind, the
\* action of "a N" / "p N", and the number of a jump
Command(k, a, n) == [kind |-> k, a |-> a, n |-> n]
NoCmd == Command("none", "none", NoIdx)

(***************************************************************************)
(* Helpers.                                                                *)
(***************************************************************************)
At(s, i) == s[i + 1]

SetAt(s, i, v) == [s EXCEPT ![i + 1] = v]

Put(m, k, v) == [p \in (DOMAIN m) \cup {k} |-> IF p = k THEN v ELSE m[p]]

Min(S) == CHOOSE x \in S : \A y \in S : x <= y

Max2(a, b) == IF a >= b THEN a ELSE b

Min2(a, b) == IF a <= b THEN a ELSE b

PathSet(fs) == {fs[k] : k \in 1..Len(fs)}

\* next_undone_index without the second scan from the front
next_undone_index_NoWrap(d, start) ==
    LET hi == {i \in start..(Len(d) - 1) : ~At(d, i)}
    IN  IF hi # {} THEN Min(hi)
        ELSE NoIdx

\* next_undone_index: the first pending index in start..len-1, else the
\* first in 0..start-1, else None.
next_undone_index(d, start) ==
    LET hi == {i \in start..(Len(d) - 1) : ~At(d, i)}
        lo == {i \in 0..(start - 1) : ~At(d, i)}
    IN  IF hi # {} THEN Min(hi)
        ELSE IF lo # {} THEN Min(lo)
        ELSE NoIdx

\* cycle_mode
ModeIndex(m) == CHOOSE i \in 0..(Len(MODES) - 1) : At(MODES, i) = m

\* cycle_mode stepping backwards through MODES
cycle_mode_Backwards(m) ==
    LET i == IF \E k \in 1..Len(MODES) : MODES[k] = m THEN ModeIndex(m) ELSE 0
    IN  At(MODES, (i + Len(MODES) - 1) % Len(MODES))

cycle_mode(m) ==
    LET i == IF \E k \in 1..Len(MODES) : MODES[k] = m THEN ModeIndex(m) ELSE 0
    IN  At(MODES, (i + 1) % Len(MODES))

\* ask_yes_no: answers as typed; input().strip().lower() folds case.
Answers == {"y", "YES", "n", "no", "", "maybe", "EOF"}

Lower(s) == CASE s = "YES" -> "yes" [] s = "Y" -> "y" [] OTHER -> s

ask_yes_no(ans, default_no) ==
    IF ans = "EOF" THEN FALSE
    ELSE IF Lower(ans) \in {"y", "yes"} THEN TRUE
    ELSE IF Lower(ans) \in {"n", "no"} THEN FALSE
    ELSE ~default_no

\* compute_rel_root: the only root, or the common path of several.
compute_rel_root(dirs) ==
    IF Len(dirs) = 1 THEN dirs[1]
    ELSE IF dirs = <<"/p/a", "/p/b">> THEN "/p"
    ELSE "/"

(***************************************************************************)
(* Persistence Gateway: the checkpoint record, save_state and load_state.  *)
(***************************************************************************)
NoFile == [kind |-> "none"]
\* a file that was opened for writing and does not (yet) hold the whole text
Partial == [kind |-> "partial"]

\* the fields of the record that load_state reads with state.get and
\* checks with isinstance
Fields == {"done", "contents", "cursor", "show_remaining_only", "mode"}

\* what the JSON text holds under a key: a value of the type save_state
\* writes ("ok"), no such key ("missing"), or a value of another JSON type
\* ("bad"); the value of a field that is not "ok" is never looked at
Shapes == [Fields -> {"ok", "missing", "bad"}]
WellShaped == [fld \in Fields |-> "ok"]

\* save_state: the record handed to atomic_write_json ("generated_at" is a
\* time stamp that load_state never reads).  nonstr is the set of keys of
\* contents whose value is not a string: save_state writes none.
StateRecord(fs, sd, rr, d, c, cur, sro, m) ==
    [kind |-> "json", scan_dirs_abs |-> sd, rel_root |-> rr, files |-> fs,
     done |-> d, cursor |-> cur, show_remaining_only |-> sro, mode |-> m,
     contents |-> c, shape |-> WellShaped, nonstr |-> {}]

NoState == [ok |-> FALSE]

\* load_state, lines 376-395: a cursor that is no integer becomes -1, a
\* filter that is no boolean becomes False, a mode that is none of MODES
\* becomes hybrid; contents keeps the inventory paths whose value is a
\* string; the cursor is clamped to -1..len(files)-1
Restored(f, fs) ==
    [ok |-> TRUE,
     done |-> f.done,
     contents |-> [p \in ((DOMAIN f.contents) \cap PathSet(fs)) \ f.nonstr
                      |-> f.contents[p]],
     cursor |-> IF f.shape["cursor"] = "ok"
                THEN Max2(-1, Min2(f.cursor, Len(fs) - 1)) ELSE -1,
     show_remaining_only |-> IF f.shape["show_remaining_only"] = "ok"
                             THEN f.show_remaining_only ELSE FALSE,
     mode |-> IF f.shape["mode"] = "ok" /\ \E k \in 1..Len(MODES) : MODES[k] = f.mode
              THEN f.mode ELSE MODE_HYBRID]

\* load_state without the comparison of the lengths of done and files
load_state_NoLengthCheck(f, fs, sd, rr) ==
    IF f.kind = "none" THEN NoState
    ELSE IF f.kind # "json" THEN NoState
    ELSE IF f.scan_dirs_abs # sd THEN NoState
    ELSE IF f.rel_root # rr THEN NoState
    ELSE IF f.files # fs THEN NoState
    ELSE IF f.shape["done"] # "ok" THEN NoState
    ELSE IF f.shape["contents"] # "ok" THEN NoState
    ELSE Restored(f, fs)

\* load_state without the comparison of the scan roots
load_state_NoScanCheck(f, fs, sd, rr) ==
    IF f.kind # "json" THEN NoState
    ELSE IF f.rel_root # rr THEN NoState
    ELSE IF f.files # fs THEN NoState
    ELSE IF f.shape["done"] # "ok" THEN NoState
    ELSE IF Len(f.done) # Len(fs) THEN NoState
    ELSE IF f.shape["contents"] # "ok" THEN NoState
    ELSE Restored(f, fs)

\* load_state: None when the file is absent, does not parse, was written
\* for other scan roots, another root or another inventory, when done is no
\* list of len(files) elements or contents is no dict; otherwise the stored
\* fields as Restored repairs them.
load_state(f, fs, sd, rr) ==
    IF f.kind = "none" THEN NoState
    ELSE IF f.kind # "json" THEN NoState
    ELSE IF f.scan_dirs_abs # sd THEN NoState
    ELSE IF f.rel_root # rr THEN NoState
    ELSE IF f.files # fs THEN NoState
    ELSE IF f.shape["done"] # "ok" THEN NoState
    ELSE IF Len(f.done) # Len(fs) THEN NoState
    ELSE IF f.shape["contents"] # "ok" THEN NoState
    ELSE Restored(f, fs)

\* the record save_state writes for the state in memory
CurrentRecord ==
    StateRecord(files, scan_dirs_abs, compute_rel_root(scan_dirs_abs), done,
                contents, cursor, show_remaining_only, mode)

(***************************************************************************)
(* Bundle Assembler.                                                       *)
(***************************************************************************)
HEADER_FMT(path) == "=== FILE: " \o path \o " ===\n"
FOOTER_FMT(path) == "=== END FILE: " \o path \o " ===\n"
SECTION_GAP == "\n"

\* Groups without the blank line after a group
RECURSIVE Groups_NoGap(_, _)
Groups_NoGap(fs, c) ==
    IF fs = <<>> THEN <<>>
    ELSE LET path == Head(fs)
             body == c[path]
             nl == IF body # <<>> /\ body[Len(body)] # "\n" THEN <<"\n">> ELSE <<>>
         IN  IF path \notin DOMAIN c THEN Groups_NoGap(Tail(fs), c)
             ELSE <<HEADER_FMT(path)>> \o body \o nl
                  \o <<FOOTER_FMT(path)>> \o Groups_NoGap(Tail(fs), c)

\* Groups writing the content as it is stored
RECURSIVE Groups_NoNewline(_, _)
Groups_NoNewline(fs, c) ==
    IF fs = <<>> THEN <<>>
    ELSE LET path == Head(fs)
             body == c[path]
         IN  IF path \notin DOMAIN c THEN Groups_NoNewline(Tail(fs), c)
             ELSE <<HEADER_FMT(path)>> \o body
                  \o <<FOOTER_FMT(path), SECTION_GAP>> \o Groups_NoNewline(Tail(fs), c)

\* the group of one path: markers are whole lines, the body is its characters
RECURSIVE Groups(_, _)
Groups(fs, c) ==
    IF fs = <<>> THEN <<>>
    ELSE LET path == Head(fs)
             body == c[path]
             nl == IF body # <<>> /\ body[Len(body)] # "\n" THEN <<"\n">> ELSE <<>>
         IN  IF path \notin DOMAIN c THEN Groups(Tail(fs), c)
             ELSE <<HEADER_FMT(path)>> \o body \o nl
                  \o <<FOOTER_FMT(path), SECTION_GAP>> \o Groups(Tail(fs), c)

\* build_bundle_text with skipped = {} (the time stamp is left out)
build_bundle_text(rr, fs, c) ==
    <<"=== BUNDLE GENERATED ===\n", "=== REL_ROOT: " \o rr \o " ===\n", "\n">>
    \o Groups(fs, c)

NoBundle == [kind |-> "none"]

(***************************************************************************)
(* The state after construction: main() has computed the inventory, found  *)
(* no checkpoint and stands at its first command prompt.  The interactive  *)
(* loop is entered with mode Hybrid or Paste (Auto takes the               *)
(* non-interactive branch).                                                *)
(***************************************************************************)
InteractiveModes == {MODE_HYBRID, MODE_PASTE}

FreshDone(fs) == [k \in 1..Len(fs) |-> FALSE]

Init ==
    /\ files = Inventory
    /\ scan_dirs_abs = ScanRoots
    /\ mode \in InteractiveModes
    /\ done = FreshDone(Inventory)
    /\ contents = EmptyMap
    /\ cursor = -1
    /\ show_remaining_only = FALSE
    /\ next_action_override = "none"
    /\ idx = NoIdx
    /\ action = "none"
    /\ cmd = NoCmd
    /\ lines = <<>>
    /\ pc = "prompt"
    /\ in_handler = FALSE
    /\ interrupts = 0
    /\ state_file = NoFile
    /\ tmp_file = NoFile
    /\ bundle = NoBundle
    /\ last = "started"
    /\ supplied = EmptyMap
    /\ loaded = NoState

\* positions inside the "try:" block of main()
TryPcs == {"prompt", "confirm_quit", "confirm_overwrite", "auto_read",
           "confirm_fallback", "capture", "mark", "set_cursor",
           "save_open", "save_write", "save_replace"}
SavePcs == {"save_open", "save_write", "save_replace"}
LivePcs == TryPcs \cup {"assemble"}
EndPcs == {"done", "crashed", "killed"}

\* the process is gone: nothing of its memory remains, and no later run
\* opens its temporary file (the name carries the pid)
Wipe ==
    /\ tmp_file' = NoFile
    /\ mode' = MODE_HYBRID
    /\ done' = FreshDone(files)
    /\ contents' = EmptyMap
    /\ cursor' = -1
    /\ show_remaining_only' = FALSE
    /\ next_action_override' = "none"
    /\ idx' = NoIdx
    /\ action' = "none"
    /\ cmd' = NoCmd
    /\ lines' = <<>>
    /\ in_handler' = FALSE
    /\ supplied' = EmptyMap

\* "continue": back to print_screen / read_cmd at the top of the loop
Continue(outcome) ==
    /\ pc' = "prompt"
    /\ last' = outcome
    /\ idx' = NoIdx
    /\ action' = "none"
    /\ lines' = <<>>

\* back to the prompt with nothing of the command left to look at
ToPrompt(outcome) ==
    /\ Continue(outcome)
    /\ cmd' = NoCmd

(***************************************************************************)
(* Commands read at the prompt (main, lines 703-760).  A command is what   *)
(* the line parses to: q, r, m, a, p, the empty line, a number, "a N" or   *)
(* "p N", or anything else.                                                *)
(***************************************************************************)
Pending == {i \in 0..(Len(done) - 1) : ~At(done, i)}

\* CmdQuit leaving the loop without the question
CmdQuit_NoQuestion ==
    /\ pc = "prompt"
    /\ pc' = "assemble"
    /\ last' = "quit"
    /\ cmd' = Command("q", "none", NoIdx)
    /\ UNCHANGED <<files, scan_dirs_abs, session, next_action_override, idx,
                   action, lines, in_handler, interrupts, disk, supplied, loaded>>

\* q, or end-of-stream at the prompt (read_cmd returns "q")
CmdQuit ==
    /\ pc = "prompt"
    /\ IF Pending # {}
       THEN pc' = "confirm_quit" /\ last' = "busy"
       ELSE pc' = "assemble" /\ last' = "quit"
    /\ cmd' = Command("q", "none", NoIdx)
    /\ UNCHANGED <<files, scan_dirs_abs, session, next_action_override, idx,
                   action, lines, in_handler, interrupts, disk, supplied, loaded>>

\* lines 714-717: "break" on a yes, "continue" on anything else
QuitAnswered(ans) ==
    /\ pc = "confirm_quit"
    /\ IF ask_yes_no(ans, TRUE)
       THEN pc' = "assemble" /\ last' = "quit" /\ UNCHANGED locals
       ELSE ToPrompt("quit_declined")
    /\ UNCHANGED <<files, scan_dirs_abs, session, next_action_override,
                   in_handler, interrupts, disk, supplied, loaded>>

\* the answer to "Quit anyway? (y/N)"
AnswerQuit == \E ans \in Answers : QuitAnswered(ans)

\* "Quit anyway? (y/N)" asked of a stream that has ended: input() raises
\* EOFError
EofAnswerQuit == QuitAnswered("EOF")

\* r: flip the filter, then save_state
CmdToggleFilter ==
    /\ pc = "prompt"
    /\ show_remaining_only' = ~show_remaining_only
    /\ pc' = "save_open"
    /\ last' = "toggled"
    /\ cmd' = Command("r", "none", NoIdx)
    /\ UNCHANGED <<files, scan_dirs_abs, mode, done, contents, cursor,
                   next_action_override, idx, action, lines, in_handler, interrupts, disk,
                   supplied, loaded>>

\* m: cycle the mode, then save_state
CmdCycleMode ==
    /\ pc = "prompt"
    /\ mode' = cycle_mode(mode)
    /\ pc' = "save_open"
    /\ last' = "cycled"
    /\ cmd' = Command("m", "none", NoIdx)
    /\ UNCHANGED <<files, scan_dirs_abs, done, contents, cursor,
                   show_remaining_only, next_action_override, idx, action, lines,
                   in_handler, interrupts, disk, supplied, loaded>>

\* a / p: arm the one-shot override
CmdArm ==
    /\ pc = "prompt"
    /\ \E a \in {"a", "p"} :
         next_action_override' = a /\ cmd' = Command("arm", a, NoIdx)
    /\ last' = "armed"
    /\ UNCHANGED <<files, scan_dirs_abs, session, idx, action, lines, pc, in_handler,
                   interrupts, disk, supplied, loaded>>

\* EffectiveAction falling back to Direct Read whatever the mode
EffectiveAction_AlwaysAuto(a) ==
    IF a # "none" THEN a
    ELSE IF next_action_override # "none" THEN next_action_override
    ELSE "a"

\* EffectiveAction looking at the mode before the armed override
EffectiveAction_ModeFirst(a) ==
    IF a # "none" THEN a
    ELSE IF mode = MODE_PASTE THEN "p"
    ELSE "a"

\* lines 773-785: the method of the step; the override is consumed
EffectiveAction(a) ==
    IF a # "none" THEN a
    ELSE IF next_action_override # "none" THEN next_action_override
    ELSE IF mode = MODE_PASTE THEN "p"
    ELSE "a"

Proceed(a, n, how) ==
    /\ idx' = n
    /\ action' = EffectiveAction(a)
    /\ next_action_override' = "none"
    /\ lines' = <<>>
    /\ pc' = IF EffectiveAction(a) = "a" THEN "auto_read" ELSE "capture"
    /\ last' = how

\* Selected without the overwrite confirmation
Selected_NoConfirm(a, n) ==
    IF n < 0 \/ n >= Len(files)
    THEN Continue("rejected") /\ UNCHANGED next_action_override
    ELSE Proceed(a, n, "selected")

\* Selected taking a number past the end for the last entry
Selected_Clamped(a, n) ==
    LET k == Min2(n, Len(files) - 1)
    IN  IF At(done, k)
        THEN /\ pc' = "confirm_overwrite"
             /\ idx' = k
             /\ action' = a
             /\ last' = "busy"
             /\ UNCHANGED <<next_action_override, lines>>
        ELSE Proceed(a, k, "selected")

\* lines 757-771: range check, then the overwrite confirmation of an entry
\* that is already done
Selected(a, n) ==
    IF n < 0 \/ n >= Len(files)
    THEN Continue("rejected") /\ UNCHANGED next_action_override
    ELSE IF At(done, n)
    THEN /\ pc' = "confirm_overwrite"
         /\ idx' = n
         /\ action' = a
         /\ last' = "busy"
         /\ UNCHANGED <<next_action_override, lines>>
    ELSE Proceed(a, n, "selected")

\* the empty line: the next pending entry after the cursor
CmdAdvance ==
    /\ pc = "prompt"
    /\ LET start == IF cursor >= 0 THEN (cursor + 1) % Len(done) ELSE 0
           n == next_undone_index(done, start)
       IN  IF n = NoIdx
           THEN Continue("all_done") /\ UNCHANGED next_action_override
           ELSE Selected("none", n)
    /\ cmd' = Command("advance", "none", NoIdx)
    /\ UNCHANGED <<files, scan_dirs_abs, session, in_handler, interrupts, disk,
                   supplied, loaded>>

\* a number N
CmdJump ==
    /\ pc = "prompt"
    /\ \E n \in 0..NumFiles :
         Selected("none", n) /\ cmd' = Command("jump", "none", n)
    /\ UNCHANGED <<files, scan_dirs_abs, session, in_handler, interrupts, disk,
                   supplied, loaded>>

\* "a N" / "p N"
CmdActionJump ==
    /\ pc = "prompt"
    /\ \E a \in {"a", "p"}, n \in 0..NumFiles :
         Selected(a, n) /\ cmd' = Command("jump", a, n)
    /\ UNCHANGED <<files, scan_dirs_abs, session, in_handler, interrupts, disk,
                   supplied, loaded>>

\* any other token
CmdInvalid ==
    /\ pc = "prompt"
    /\ Continue("rejected")
    /\ cmd' = Command("invalid", "none", NoIdx)
    /\ UNCHANGED <<files, scan_dirs_abs, session, next_action_override,
                   in_handler, interrupts, disk, supplied, loaded>>

\* the answer to "... is already done. Overwrite it? (y/N)"
AnswerOverwrite ==
    /\ pc = "confirm_overwrite"
    /\ \E ans \in Answers :
         IF ask_yes_no(ans, TRUE)
         THEN Proceed(action, idx, "confirmed") /\ UNCHANGED cmd
         ELSE ToPrompt("declined") /\ UNCHANGED next_action_override
    /\ UNCHANGED <<files, scan_dirs_abs, session, in_handler, interrupts, disk,
                   supplied, loaded>>

(***************************************************************************)
(* Acquisition (main, lines 784-811).                                      *)
(***************************************************************************)
\* Store starting the mapping afresh with the one content
Store_Fresh(c) ==
    /\ contents' = [p \in {At(files, idx)} |-> c]
    /\ supplied' = Put(supplied, At(files, idx), c)

\* contents[path] = content (lines 798 and 805)
Store(c) ==
    /\ contents' = Put(contents, At(files, idx), c)
    /\ supplied' = Put(supplied, At(files, idx), c)

\* auto_read_file returns content: contents[path] = content
AutoReadOk ==
    /\ pc = "auto_read"
    /\ \E c \in ContentValues : Store(c)
    /\ pc' = "mark"
    /\ last' = "acq_direct"
    /\ cmd' = NoCmd
    /\ UNCHANGED <<files, scan_dirs_abs, mode, done, cursor, show_remaining_only,
                   next_action_override, idx, action, lines, in_handler, interrupts, disk, loaded>>

\* AutoReadFail offering the capture in every mode
AutoReadFail_AlwaysOffer ==
    /\ pc = "auto_read"
    /\ \E why \in FailReasons :
         pc' = "confirm_fallback" /\ UNCHANGED <<last, locals>>
    /\ UNCHANGED <<files, scan_dirs_abs, session, next_action_override,
                   in_handler, interrupts, disk, supplied, loaded>>

\* AutoReadFail moving the cursor to the entry that could not be read
AutoReadFail_MovesCursor ==
    /\ pc = "auto_read"
    /\ \E why \in FailReasons :
         IF mode = MODE_HYBRID
         THEN pc' = "confirm_fallback" /\ UNCHANGED <<last, locals, cursor>>
         ELSE cursor' = idx /\ ToPrompt("read_failed")
    /\ UNCHANGED <<files, scan_dirs_abs, done, contents, show_remaining_only,
                   mode, next_action_override, in_handler, interrupts, disk,
                   supplied, loaded>>

\* auto_read_file returns (None, why): Hybrid offers the capture, any other
\* mode goes back to the prompt
AutoReadFail ==
    /\ pc = "auto_read"
    /\ \E why \in FailReasons :
         IF mode = MODE_HYBRID
         THEN pc' = "confirm_fallback" /\ UNCHANGED <<last, locals>>
         ELSE ToPrompt("read_failed")
    /\ UNCHANGED <<files, scan_dirs_abs, session, next_action_override,
                   in_handler, interrupts, disk, supplied, loaded>>

\* AnswerFallback switching the active mode to Paste on yes
AnswerFallback_SwitchMode ==
    /\ pc = "confirm_fallback"
    /\ \E ans \in Answers :
         IF ask_yes_no(ans, TRUE)
         THEN pc' = "capture" /\ mode' = MODE_PASTE /\ UNCHANGED <<last, locals>>
         ELSE ToPrompt("fallback_declined") /\ UNCHANGED mode
    /\ UNCHANGED <<files, scan_dirs_abs, done, contents, cursor,
                   show_remaining_only, next_action_override, in_handler,
                   interrupts, disk, supplied, loaded>>

\* lines 791-795: capture_section on a yes, "continue" on anything else
FallbackAnswered(ans) ==
    /\ pc = "confirm_fallback"
    /\ IF ask_yes_no(ans, TRUE)
       THEN pc' = "capture" /\ UNCHANGED <<last, locals>>
       ELSE ToPrompt("fallback_declined")
    /\ UNCHANGED <<files, scan_dirs_abs, session, next_action_override,
                   in_handler, interrupts, disk, supplied, loaded>>

\* the answer to "Switch to PASTE mode for this file? (y/N)"
AnswerFallback == \E ans \in Answers : FallbackAnswered(ans)

\* an operator who declines the capture: any answer that is not a yes
DeclineFallback ==
    \E ans \in {a \in Answers : ~ask_yes_no(a, TRUE)} : FallbackAnswered(ans)

\* nothing read yet, or the text read so far ends with a line terminator
AtLineStart(s) == IF s = <<>> THEN TRUE ELSE s[Len(s)] = "\n"

\* capture_section: one readline() that is neither the end marker nor
\* end-of-stream; a line without terminator is the last of the stream
CaptureLine ==
    /\ pc = "capture"
    /\ AtLineStart(lines)
    /\ \E l \in LineValues :
         /\ lines \o l \in ContentValues
         /\ lines' = lines \o l
    /\ UNCHANGED <<files, scan_dirs_abs, session, next_action_override, idx,
                   action, cmd, pc, in_handler, interrupts, disk, last, supplied,
                   loaded>>

\* capture_section returns on the end marker or end-of-stream:
\* contents[path] = "".join(lines)
CaptureEnd ==
    /\ pc = "capture"
    /\ lines \in ContentValues
    /\ Store(lines)
    /\ lines' = <<>>
    /\ pc' = "mark"
    /\ last' = IF action = "a" THEN "acq_fallback" ELSE "acq_manual"
    /\ cmd' = NoCmd
    /\ UNCHANGED <<files, scan_dirs_abs, mode, done, cursor, show_remaining_only,
                   next_action_override, idx, action, in_handler, interrupts,
                   disk, loaded>>

\* done[idx] = True (lines 799 and 806)
Mark ==
    /\ pc = "mark"
    /\ done' = SetAt(done, idx, TRUE)
    /\ pc' = "set_cursor"
    /\ UNCHANGED <<files, scan_dirs_abs, mode, contents, cursor,
                   show_remaining_only, next_action_override, locals,
                   in_handler, interrupts, disk, last, supplied, loaded>>

\* SetCursor leaving the cursor where it was
SetCursor_Skipped ==
    /\ pc = "set_cursor"
    /\ pc' = "save_open"
    /\ UNCHANGED <<files, scan_dirs_abs, session, next_action_override, locals,
                   in_handler, interrupts, disk, last, supplied, loaded>>

\* cursor = idx (lines 800 and 807), then save_state (line 810)
SetCursor ==
    /\ pc = "set_cursor"
    /\ cursor' = idx
    /\ pc' = "save_open"
    /\ UNCHANGED <<files, scan_dirs_abs, mode, done, contents,
                   show_remaining_only, next_action_override, locals,
                   in_handler, interrupts, disk, last, supplied, loaded>>

(***************************************************************************)
(* save_state -> atomic_write_json -> atomic_write_text(STATE_FILE).       *)
(***************************************************************************)
\* SaveOpen opening the checkpoint itself for writing
SaveOpen_InPlace ==
    /\ pc = "save_open"
    /\ state_file' = Partial
    /\ pc' = "save_write"
    /\ UNCHANGED <<files, scan_dirs_abs, session, next_action_override, locals,
                   in_handler, interrupts, tmp_file, bundle, last, supplied,
                   loaded>>

\* open(tmp, "w"): the temporary file exists and is empty
SaveOpen ==
    /\ pc = "save_open"
    /\ tmp_file' = Partial
    /\ pc' = "save_write"
    /\ UNCHANGED <<files, scan_dirs_abs, session, next_action_override, locals,
                   in_handler, interrupts, state_file, bundle, last, supplied, loaded>>

\* f.write(data); f.flush(); os.fsync(): the temporary file holds the record
SaveWrite ==
    /\ pc = "save_write"
    /\ tmp_file' = CurrentRecord
    /\ pc' = "save_replace"
    /\ UNCHANGED <<files, scan_dirs_abs, session, next_action_override, locals,
                   in_handler, interrupts, state_file, bundle, last, supplied, loaded>>

\* os.replace(tmp, path); save_state returns: to the prompt from the loop,
\* to the bundle from the interrupt handler
SaveReplace ==
    /\ pc = "save_replace"
    /\ state_file' = tmp_file
    /\ tmp_file' = NoFile
    /\ pc' = IF in_handler THEN "assemble" ELSE "prompt"
    /\ UNCHANGED <<files, scan_dirs_abs, session, next_action_override, locals,
                   in_handler, interrupts, bundle, last, supplied, loaded>>

\* SaveError caught and ignored: the loop goes on
SaveError_Swallowed ==
    /\ pc \in SavePcs
    /\ pc' = IF in_handler THEN "assemble" ELSE "prompt"
    /\ last' = IF in_handler THEN "handler_write_failed" ELSE "write_failed"
    /\ UNCHANGED <<files, scan_dirs_abs, session, next_action_override, locals,
                   in_handler, interrupts, disk, supplied, loaded>>

\* open, write, fsync or replace raises OSError: nothing in main() catches
\* it, the process ends with a traceback
SaveError ==
    /\ pc \in SavePcs
    /\ pc' = "crashed"
    /\ last' = IF in_handler THEN "handler_write_failed" ELSE "write_failed"
    /\ Wipe
    /\ UNCHANGED <<files, scan_dirs_abs, interrupts, state_file, bundle, loaded>>

(***************************************************************************)
(* Interrupts, termination, and the next run.                              *)
(***************************************************************************)
\* SIGINT: Python raises KeyboardInterrupt in the main thread wherever it
\* is.  Inside the try block the handler saves the state (line 816);
\* elsewhere nothing catches it.
Interrupt ==
    /\ pc \in LivePcs
    /\ interrupts < MaxInterrupts
    /\ interrupts' = interrupts + 1
    /\ IF pc \in TryPcs /\ ~in_handler
       THEN /\ in_handler' = TRUE
            /\ pc' = "save_open"
            /\ last' = "interrupted"
            /\ next_action_override' = "none"
            /\ idx' = NoIdx
            /\ action' = "none"
            /\ cmd' = NoCmd
            /\ lines' = <<>>
            /\ UNCHANGED <<session, supplied, tmp_file>>
       ELSE /\ pc' = "crashed"
            /\ last' = "interrupted"
            /\ Wipe
    /\ UNCHANGED <<files, scan_dirs_abs, state_file, bundle, loaded>>

\* the process is killed, or the machine stops
Kill ==
    /\ pc \in LivePcs
    /\ pc' = "killed"
    /\ last' = "killed"
    /\ Wipe
    /\ UNCHANGED <<files, scan_dirs_abs, interrupts, state_file, bundle, loaded>>

\* lines 818-819: build_bundle_text and atomic_write_text(BUNDLE_NAME)
Assemble ==
    /\ pc = "assemble"
    /\ bundle' = [kind |-> "text",
                  text |-> build_bundle_text(compute_rel_root(scan_dirs_abs),
                                             files, contents)]
    /\ pc' = "done"
    /\ UNCHANGED <<files, scan_dirs_abs, session, next_action_override, locals,
                   in_handler, interrupts, state_file, tmp_file, last, supplied, loaded>>

\* writing the bundle raises OSError
AssembleError ==
    /\ pc = "assemble"
    /\ pc' = "crashed"
    /\ last' = "bundle_write_failed"
    /\ Wipe
    /\ UNCHANGED <<files, scan_dirs_abs, interrupts, state_file, bundle, loaded>>

\* Restart taking the mode of the checkpoint it resumes
Restart_SavedMode ==
    /\ pc \in EndPcs
    /\ LET r == load_state(state_file, files, scan_dirs_abs,
                           compute_rel_root(scan_dirs_abs))
       IN  /\ done' = IF r.ok THEN r.done ELSE FreshDone(files)
           /\ contents' = IF r.ok THEN r.contents ELSE EmptyMap
           /\ supplied' = IF r.ok THEN r.contents ELSE EmptyMap
           /\ cursor' = IF r.ok THEN r.cursor ELSE -1
           /\ show_remaining_only' = IF r.ok THEN r.show_remaining_only ELSE FALSE
           /\ last' = IF r.ok THEN "resumed" ELSE "started"
           /\ \E m \in InteractiveModes :
                /\ cmd' = Command("mode", m, NoIdx)
                /\ mode' = IF r.ok THEN r.mode ELSE m
    /\ next_action_override' = "none"
    /\ idx' = NoIdx
    /\ action' = "none"
    /\ lines' = <<>>
    /\ pc' = "prompt"
    /\ in_handler' = FALSE
    /\ interrupts' = 0
    /\ tmp_file' = NoFile
    /\ bundle' = NoBundle
    /\ UNCHANGED <<files, scan_dirs_abs, state_file, loaded>>

\* the next run of main() over the same inventory and scan roots: the
\* operator picks the mode (lines 633-635, kept in cmd as the answer read),
\* then load_state decides between resume and fresh start (lines 685-700);
\* the mode of the checkpoint is not used
Restart ==
    /\ pc \in EndPcs
    /\ LET r == load_state(state_file, files, scan_dirs_abs,
                           compute_rel_root(scan_dirs_abs))
       IN  /\ done' = IF r.ok THEN r.done ELSE FreshDone(files)
           /\ contents' = IF r.ok THEN r.contents ELSE EmptyMap
           /\ supplied' = IF r.ok THEN r.contents ELSE EmptyMap
           /\ cursor' = IF r.ok THEN r.cursor ELSE -1
           /\ show_remaining_only' = IF r.ok THEN r.show_remaining_only ELSE FALSE
           /\ last' = IF r.ok THEN "resumed" ELSE "started"
    /\ \E m \in InteractiveModes :
         /\ cmd' = Command("mode", m, NoIdx)
         /\ mode' = m
    /\ next_action_override' = "none"
    /\ idx' = NoIdx
    /\ action' = "none"
    /\ lines' = <<>>
    /\ pc' = "prompt"
    /\ in_handler' = FALSE
    /\ interrupts' = 0
    /\ tmp_file' = NoFile
    /\ bundle' = NoBundle
    /\ UNCHANGED <<files, scan_dirs_abs, state_file, loaded>>

Next ==
    \/ CmdQuit
    \/ AnswerQuit
    \/ CmdToggleFilter
    \/ CmdCycleMode
    \/ CmdArm
    \/ CmdAdvance
    \/ CmdJump
    \/ CmdActionJump
    \/ CmdInvalid
    \/ AnswerOverwrite
    \/ AutoReadOk
    \/ AutoReadFail
    \/ AnswerFallback
    \/ CaptureLine
    \/ CaptureEnd
    \/ Mark
    \/ SetCursor
    \/ SaveOpen
    \/ SaveWrite
    \/ SaveReplace
    \/ SaveError
    \/ Interrupt
    \/ Kill
    \/ Assemble
    \/ AssembleError
    \/ Restart

Spec == Init /\ [][Next]_vars

(***************************************************************************)
(* Save and reload as functions of the state, the inventory and the scan   *)
(* roots: every typed Session State is saved, and the checkpoint is        *)
(* loaded by a run with any inventory and any scan roots.                  *)
(***************************************************************************)
\* sorted inventories of different lengths and different paths
Inventories ==
    {SubSeq(AllPaths, 1, n) : n \in 1..NumFiles}
        \cup {SubSeq(AllPaths, 2, NumFiles)}

ContentMaps(fs) == UNION {[S -> ContentValues] : S \in SUBSET PathSet(fs)}

InitResume ==
    /\ files \in Inventories
    /\ scan_dirs_abs \in ScanRootChoices
    /\ mode \in {MODES[k] : k \in 1..Len(MODES)}
    /\ done \in [1..Len(files) -> BOOLEAN]
    /\ contents \in ContentMaps(files)
    /\ cursor \in -1..(Len(files) - 1)
    /\ show_remaining_only \in BOOLEAN
    /\ next_action_override = "none"
    /\ idx = NoIdx
    /\ action = "none"
    /\ cmd = NoCmd
    /\ lines = <<>>
    /\ pc = "save_open"
    /\ in_handler = FALSE
    /\ interrupts = 0
    /\ state_file = NoFile
    /\ tmp_file = NoFile
    /\ bundle = NoBundle
    /\ last = "saving"
    /\ supplied = contents
    /\ loaded = NoState

\* the next run calls load_state(files, scan_dirs_abs, rel_root) with its
\* own inventory and scan roots
ResumeLoad ==
    /\ pc = "prompt"
    /\ last = "saving"
    /\ \E fs \in Inventories, sd \in ScanRootChoices :
         loaded' = [files |-> fs, scan_dirs_abs |-> sd,
                    result |-> load_state(state_file, fs, sd, compute_rel_root(sd))]
    /\ pc' = "loaded"
    /\ UNCHANGED <<files, scan_dirs_abs, session, next_action_override, locals,
                   in_handler, interrupts, disk, last, supplied>>

NextResume ==
    \/ SaveOpen
    \/ SaveWrite
    \/ SaveReplace
    \/ ResumeLoad

SpecResume == InitResume /\ [][NextResume]_vars

(***************************************************************************)
(* A run that finds a checkpoint it did not write as it stands: the file   *)
(* was cut short, edited, or written by another version.  The inventory    *)
(* and the scan roots are those of the record.                             *)
(***************************************************************************)
\* a done list of the wrong length
LongDone == [k \in 1..(NumFiles + 1) |-> TRUE]

FoundRecords ==
    {[StateRecord(Inventory, ScanRoots, compute_rel_root(ScanRoots),
                  d, c, cur, sro, m) EXCEPT !.shape = sh, !.nonstr = ns] :
        d \in [1..NumFiles -> BOOLEAN] \cup {LongDone},
        c \in {EmptyMap, [p \in {Inventory[1]} |-> ContentPool[1]]},
        cur \in {-1, 0, NumFiles + 1},
        sro \in BOOLEAN,
        m \in {MODE_PASTE, MODE_AUTO, "turbo"},
        sh \in Shapes,
        ns \in {{}, {Inventory[1]}}}

InitLoad ==
    /\ files = Inventory
    /\ scan_dirs_abs = ScanRoots
    /\ mode = MODE_HYBRID
    /\ done = FreshDone(Inventory)
    /\ contents = EmptyMap
    /\ cursor = -1
    /\ show_remaining_only = FALSE
    /\ next_action_override = "none"
    /\ idx = NoIdx
    /\ action = "none"
    /\ cmd = NoCmd
    /\ lines = <<>>
    /\ pc = "killed"
    /\ in_handler = FALSE
    /\ interrupts = 0
    /\ state_file \in FoundRecords \cup {Partial}
    /\ tmp_file = NoFile
    /\ bundle = NoBundle
    /\ last = "killed"
    /\ supplied = EmptyMap
    /\ loaded = NoState

NextLoad == Restart

SpecLoad == InitLoad /\ [][NextLoad]_vars

(***************************************************************************)
(* build_bundle_text as a function of the inventory, the root and the      *)
(* contents: the loop has ended with any contents for any inventory.       *)
(***************************************************************************)
\* stored contents: every text of the pool, the empty one included
BundleContents == {ContentPool[k] : k \in 1..Len(ContentPool)}

BundleMaps(fs) == UNION {[S -> BundleContents] : S \in SUBSET PathSet(fs)}

InitBundle ==
    /\ files \in Inventories
    /\ scan_dirs_abs \in ScanRootChoices
    /\ mode \in InteractiveModes
    /\ contents \in BundleMaps(files)
    /\ done = [k \in 1..Len(files) |-> files[k] \in DOMAIN contents]
    /\ cursor = -1
    /\ show_remaining_only = FALSE
    /\ next_action_override = "none"
    /\ idx = NoIdx
    /\ action = "none"
    /\ cmd = Command("q", "none", NoIdx)
    /\ lines = <<>>
    /\ pc = "assemble"
    /\ in_handler = FALSE
    /\ interrupts = 0
    /\ state_file = NoFile
    /\ tmp_file = NoFile
    /\ bundle = NoBundle
    /\ last = "quit"
    /\ supplied = contents
    /\ loaded = NoState

NextBundle ==
    \/ Assemble
    \/ AssembleError

SpecBundle == InitBundle /\ [][NextBundle]_vars

(***************************************************************************)
(* The empty command at any prompt of a session over an inventory long     *)
(* enough for the scan to pass the end with entries left before the        *)
(* cursor.  The session has acquired any set of entries in any order (by   *)
(* jumps); the cursor is the entry acquired last, or unset in a session    *)
(* resumed from a checkpoint written between the flag and the cursor.      *)
(***************************************************************************)
AdvanceFiles == SubSeq(AllPaths, 1, NumFiles + 1)

InitAdvance ==
    /\ files = AdvanceFiles
    /\ scan_dirs_abs = ScanRoots
    /\ mode \in {MODES[k] : k \in 1..Len(MODES)}
    /\ contents \in ContentMaps(AdvanceFiles)
    /\ done = [k \in 1..Len(AdvanceFiles) |-> AdvanceFiles[k] \in DOMAIN contents]
    /\ cursor \in {-1} \cup {i \in 0..(Len(AdvanceFiles) - 1) :
                                AdvanceFiles[i + 1] \in DOMAIN contents}
    /\ show_remaining_only \in BOOLEAN
    /\ next_action_override \in {"none", "a", "p"}
    /\ idx = NoIdx
    /\ action = "none"
    /\ cmd = NoCmd
    /\ lines = <<>>
    /\ pc = "prompt"
    /\ in_handler = FALSE
    /\ interrupts = 0
    /\ state_file = StateRecord(files, scan_dirs_abs,
                                compute_rel_root(scan_dirs_abs), done, contents,
                                cursor, show_remaining_only, mode)
    /\ tmp_file = NoFile
    /\ bundle = NoBundle
    /\ last = "resumed"
    /\ supplied = contents
    /\ loaded = NoState

NextAdvance == CmdAdvance

SpecAdvance == InitAdvance /\ [][NextAdvance]_vars

(***************************************************************************)
(* The command loop on an input stream that has ended (a pipe or a file    *)
(* read to its end): every input() raises EOFError from now on.  The loop  *)
(* stands at the prompt of a session that has acquired any set of entries. *)
(* No signal arrives and no write fails; the process keeps running.        *)
(***************************************************************************)
InitEof ==
    /\ files = Inventory
    /\ scan_dirs_abs = ScanRoots
    /\ mode \in {MODES[k] : k \in 1..Len(MODES)}
    /\ contents \in ContentMaps(Inventory)
    /\ done = [k \in 1..Len(Inventory) |-> Inventory[k] \in DOMAIN contents]
    /\ cursor \in {-1} \cup {i \in 0..(Len(Inventory) - 1) :
                                Inventory[i + 1] \in DOMAIN contents}
    /\ show_remaining_only \in BOOLEAN
    /\ next_action_override \in {"none", "a", "p"}
    /\ idx = NoIdx
    /\ action = "none"
    /\ cmd = NoCmd
    /\ lines = <<>>
    /\ pc = "prompt"
    /\ in_handler = FALSE
    /\ interrupts = 0
    /\ state_file = StateRecord(files, scan_dirs_abs,
                                compute_rel_root(scan_dirs_abs), done, contents,
                                cursor, show_remaining_only, mode)
    /\ tmp_file = NoFile
    /\ bundle = NoBundle
    /\ last = "resumed"
    /\ supplied = contents
    /\ loaded = NoState

\* read_cmd returns "q" on EOFError, ask_yes_no returns False
NextEof ==
    \/ CmdQuit
    \/ EofAnswerQuit
    \/ Assemble

SpecEof == InitEof /\ [][NextEof]_vars /\ WF_vars(NextEof)

(***************************************************************************)
(* An operator who gives the empty command at every prompt and declines    *)
(* every capture offered after a failed read.  The loop stands at the      *)
(* prompt of a session that has acquired any set of entries.  No signal    *)
(* arrives and no write fails; the process keeps running and the operator  *)
(* keeps answering.  Whether a read succeeds is up to the file.            *)
(***************************************************************************)
NextAdvanceOnly ==
    \/ CmdAdvance
    \/ AutoReadOk
    \/ AutoReadFail
    \/ DeclineFallback
    \/ CaptureLine
    \/ CaptureEnd
    \/ Mark
    \/ SetCursor
    \/ SaveOpen
    \/ SaveWrite
    \/ SaveReplace

SpecAdvanceOnly == InitEof /\ [][NextAdvanceOnly]_vars /\ WF_vars(NextAdvanceOnly)

(***************************************************************************)
(* Properties.                                                             *)
(***************************************************************************)
Indices == 0..(Len(files) - 1)
HasContent(c, i) == At(files, i) \in DOMAIN c
AcqOutcomes == {"acq_direct", "acq_manual", "acq_fallback"}

\* content of entry i differs between two content mappings
ContentDiffers(c1, c2, i) ==
    \/ HasContent(c1, i) # HasContent(c2, i)
    \/ HasContent(c1, i) /\ HasContent(c2, i) /\ c1[At(files, i)] # c2[At(files, i)]

\* a step of a running session (not the end of the process, not a new run)
SessionStep == pc \notin EndPcs /\ pc' \notin EndPcs

\* C1: at every command prompt, for every inventory path, the acquired flag
\* is true iff the content mapping has an entry for the path; the number of
\* true flags equals the number of paths with content; and the content of
\* each acquired path is the content last supplied for it.
C1_FlagIffContent ==
    pc = "prompt" =>
        /\ \A i \in Indices : At(done, i) <=> HasContent(contents, i)
        /\ Cardinality({i \in Indices : At(done, i)}) = Cardinality(DOMAIN contents)
        /\ \A i \in Indices :
             At(done, i) /\ HasContent(contents, i) /\ HasContent(supplied, i)
                => contents[At(files, i)] = supplied[At(files, i)]

\* C2: at the prompt after an acquisition of entry idx the flag is set, the
\* stored content is the supplied one, the cursor is idx and the checkpoint
\* is the record of the state in memory; after a mode cycle or a filter
\* toggle the checkpoint is the record of the state in memory; and a step of
\* the session changes the flag and the content of no entry but the selected.
C2_AcquisitionCommitted ==
    /\ [](pc = "prompt" =>
            /\ last \in AcqOutcomes =>
                  /\ idx \in Indices
                  /\ At(done, idx)
                  /\ HasContent(contents, idx)
                  /\ contents[At(files, idx)] = supplied[At(files, idx)]
                  /\ cursor = idx
                  /\ state_file = CurrentRecord
            /\ last \in {"toggled", "cycled"} => state_file = CurrentRecord)
    /\ [][(done' # done \/ contents' # contents) /\ SessionStep =>
            \A i \in Indices :
                (At(done, i) # At(done', i) \/ ContentDiffers(contents, contents', i))
                    => i = idx]_vars

C2_Witness ==
    /\ pc = "prompt"
    /\ last = "acq_manual"
    /\ idx = 1
    /\ At(done, 0)
    /\ At(done, 1)
    /\ contents[At(files, 0)] # contents[At(files, 1)]
    /\ state_file = CurrentRecord

\* C3: an entry that is already done reaches an acquisition only through the
\* overwrite confirmation; an answer other than yes leaves flags, contents,
\* cursor, filter, mode and checkpoint unchanged and returns to the prompt;
\* and the content of a done path changes only in a step that follows a yes
\* to the overwrite confirmation for that path.
C3_OverwriteNeedsYes ==
    [][/\ pc = "prompt" /\ pc' \in {"auto_read", "capture"} => ~At(done, idx')
       /\ pc = "confirm_overwrite" /\ pc' \notin {"auto_read", "capture", "save_open"} /\ SessionStep
            => pc' = "prompt" /\ UNCHANGED <<session, state_file>>
       /\ contents' # contents /\ SessionStep =>
            \A i \in Indices :
                At(done, i) /\ HasContent(contents, i) /\ ContentDiffers(contents, contents', i)
                    => last = "confirmed" /\ idx = i]_vars

C3_Witness ==
    /\ pc = "prompt"
    /\ last = "declined"
    /\ \E i \in Indices : At(done, i) /\ HasContent(contents, i)
    /\ state_file = CurrentRecord

C5_CheckpointAtomic ==
    /\ [](state_file # Partial)
    /\ [][state_file' # state_file =>
            /\ pc = "save_replace"
            /\ tmp_file.kind = "json"
            /\ state_file' = tmp_file]_vars
    /\ [](pc \in EndPcs /\ state_file # NoFile =>
            load_state(state_file, files, scan_dirs_abs,
                       compute_rel_root(scan_dirs_abs)).ok)

C5_Witness ==
    /\ pc = "crashed"
    /\ last = "write_failed"
    /\ state_file.kind = "json"
    /\ DOMAIN state_file.contents # {}

\* a checkpoint of whole acquisition steps: content is stored exactly for
\* the paths whose flag is set
WholeSteps(f) ==
    f.kind = "json" =>
        \A i \in 0..(Len(f.files) - 1) :
            At(f.done, i) <=> (At(f.files, i) \in DOMAIN f.contents)

\* positions inside an acquisition step, before its save
AcquisitionPcs == {"auto_read", "confirm_fallback", "capture", "mark", "set_cursor"}

\* C6: an interrupt is never acted on in the middle of an acquisition step
\* (during a Direct Read, a capture, or the updates of content, flag and
\* cursor), and every checkpoint written reflects whole acquisition steps.
C6_InterruptsCooperative ==
    /\ [][~in_handler /\ in_handler' => pc \notin AcquisitionPcs]_vars
    /\ [](WholeSteps(state_file))

\* C7: after an interrupt in the loop no command is read, the state in
\* memory is written to the checkpoint, and the run terminates with the
\* bundle assembled from that state.
C7_InterruptSavesAndStops ==
    /\ in_handler => pc \in SavePcs \cup {"assemble", "done"}
    /\ last \notin {"handler_write_failed"}
    /\ in_handler /\ pc \in {"assemble", "done"} => state_file = CurrentRecord
    /\ in_handler /\ pc = "done" =>
         bundle = [kind |-> "text",
                   text |-> build_bundle_text(compute_rel_root(scan_dirs_abs),
                                              files, contents)]

\* the state in memory is what the checkpoint holds, the mode apart (a run
\* starts with the mode the operator chose)
InSync ==
    LET r == load_state(state_file, files, scan_dirs_abs,
                        compute_rel_root(scan_dirs_abs))
    IN  IF r.ok
        THEN /\ done = r.done
             /\ contents = r.contents
             /\ cursor = r.cursor
             /\ show_remaining_only = r.show_remaining_only
        ELSE /\ done = FreshDone(files)
             /\ contents = EmptyMap
             /\ cursor = -1
             /\ show_remaining_only = FALSE

\* C8: a failed checkpoint write ends the process, and wherever the loop
\* reads input (a command, an answer, a file, a capture) the state in
\* memory is the state of the checkpoint.
C8_WriteFailureFatal ==
    /\ last = "write_failed" => pc = "crashed"
    /\ pc \in {"prompt", "confirm_quit", "confirm_overwrite", "auto_read",
               "confirm_fallback", "capture"} => InSync
    /\ pc = "prompt" /\ last = "cycled" => state_file = CurrentRecord

C8_Witness ==
    /\ pc = "crashed"
    /\ last = "write_failed"
    /\ state_file = NoFile

\* a step out of the Direct Read that is neither its success nor an
\* interrupt nor the end of the process: the read failed
ReadFailedStep ==
    /\ pc = "auto_read"
    /\ pc' \notin {"mark", "save_open"}
    /\ SessionStep

\* C9: when Direct Read fails in Auto mode, no capture is offered or made,
\* flags, contents, cursor and checkpoint stay as they were, and the loop
\* is back at the prompt.
C9_AutoNoFallback ==
    [][ReadFailedStep /\ mode = MODE_AUTO =>
            /\ pc' = "prompt"
            /\ UNCHANGED <<done, contents, cursor, state_file>>]_vars

C9_Witness ==
    /\ pc = "prompt"
    /\ last = "read_failed"
    /\ mode = MODE_AUTO
    /\ Pending # {}

\* C10: when Direct Read fails in Hybrid mode the operator is asked; after a
\* yes the entry is acquired with the captured content, the checkpoint is
\* written and the mode is still Hybrid; any other answer leaves flags,
\* contents, cursor and checkpoint unchanged.
C10_HybridFallback ==
    /\ [][ReadFailedStep /\ mode = MODE_HYBRID =>
            /\ pc' = "confirm_fallback"
            /\ UNCHANGED <<session, state_file>>]_vars
    /\ [][pc = "confirm_fallback" /\ pc' \notin {"capture", "save_open"} /\ SessionStep =>
            /\ pc' = "prompt"
            /\ UNCHANGED <<session, state_file>>]_vars
    /\ [](pc = "confirm_fallback" => mode = MODE_HYBRID)
    /\ [](pc = "prompt" /\ last = "acq_fallback" =>
            /\ mode = MODE_HYBRID
            /\ At(done, idx)
            /\ HasContent(contents, idx)
            /\ contents[At(files, idx)] = supplied[At(files, idx)]
            /\ cursor = idx
            /\ state_file = CurrentRecord)

C10_Witness ==
    /\ pc = "prompt"
    /\ last = "acq_fallback"
    /\ mode = MODE_HYBRID
    /\ state_file = CurrentRecord
    /\ \E i \in Indices : ~At(done, i)

\* a step that selects an entry for acquisition: from the prompt, or from
\* the overwrite confirmation after a yes
MethodChosen ==
    /\ pc \in {"prompt", "confirm_overwrite"}
    /\ pc' \in {"auto_read", "capture"}

\* C11 as stated: while the active mode is Manual (paste) the loop never
\* attempts Direct Read on a selected entry.
C11_ManualNeverReads ==
    pc = "auto_read" => mode # MODE_PASTE

\* C11: while the active mode is Manual (paste), Direct Read is attempted on
\* a selected entry only when the command is "a N" or the override "a" is
\* armed; when that read fails there is no capture, the entry stays as it
\* was and the loop is back at the prompt.
C11_ManualReadsOnRequestOnly ==
    /\ [][MethodChosen /\ pc' = "auto_read" /\ mode = MODE_PASTE =>
            cmd'.a = "a" \/ next_action_override = "a"]_vars
    /\ [][ReadFailedStep /\ mode = MODE_PASTE =>
            /\ pc' = "prompt"
            /\ UNCHANGED <<session, state_file>>]_vars

C11_Witness ==
    /\ pc = "auto_read"
    /\ mode = MODE_PASTE
    /\ cmd.kind = "advance"
    /\ ~At(done, idx)

\* outcomes with which the loop comes back to the prompt after an entry was
\* selected by an advance or a jump
AfterSelection ==
    AcqOutcomes \cup {"declined", "read_failed", "fallback_declined"}

\* C12: an armed override applies to the next selected entry and is cleared
\* by it: at the prompt after a selection (acquired, failed, or declined at
\* the overwrite or fallback question) no override is armed, and a step of
\* the session that arms or clears the override leaves the mode as it was.
C12_OverrideOneShot ==
    /\ [](pc = "prompt" /\ last \in AfterSelection => next_action_override = "none")
    /\ [][SessionStep /\ next_action_override' # next_action_override =>
            mode' = mode]_vars

\* the command read by this step is an unrecognized token or a jump
\* ("N", "a N", "p N") to a number that is no index of the inventory
ReadsBadCommand ==
    /\ pc = "prompt"
    /\ \/ cmd'.kind = "invalid"
       \/ cmd'.kind = "jump" /\ cmd'.n >= Len(files)

\* C13: a jump to a number at or past the inventory length, and any
\* unrecognized token, changes no flag, content, cursor, filter, mode or
\* checkpoint, starts no acquisition and leaves the loop at the prompt.
C13_RejectionChangesNothing ==
    [][ReadsBadCommand =>
            /\ pc' = "prompt"
            /\ last' = "rejected"
            /\ UNCHANGED <<session, disk, next_action_override>>]_vars

C13_Witness ==
    /\ pc = "prompt"
    /\ last = "rejected"
    /\ cmd = Command("jump", "a", Len(files))
    /\ \E i \in Indices : At(done, i)
    /\ state_file = CurrentRecord

\* C14: q with a pending entry asks "Quit anyway?" and leaves the loop only
\* on a yes; any other answer is back at the prompt with flags, contents,
\* cursor, filter, mode and checkpoint unchanged.  q with no pending entry
\* leaves the loop without a question.  The bundle of a run that ends after
\* q is built from the state in memory, which is the state at the q.
C14_QuitConfirmed ==
    /\ [][pc = "prompt" /\ cmd'.kind = "q" =>
            /\ pc' = IF Pending # {} THEN "confirm_quit" ELSE "assemble"
            /\ UNCHANGED <<session, disk>>]_vars
    /\ [][pc = "confirm_quit" /\ SessionStep /\ pc' # "save_open" =>
            /\ pc' \in {"assemble", "prompt"}
            /\ UNCHANGED <<session, disk>>]_vars
    /\ [][pc = "assemble" /\ pc' = "done" =>
            UNCHANGED <<session, state_file, files, scan_dirs_abs>>]_vars
    /\ [](pc = "done" /\ last = "quit" =>
            /\ bundle.kind = "text"
            /\ bundle.text = build_bundle_text(compute_rel_root(scan_dirs_abs),
                                               files, contents))

C14_Witness ==
    /\ pc = "done"
    /\ last = "quit"
    /\ Pending # {}
    /\ DOMAIN contents # {}
    /\ bundle.kind = "text"

ModeSet == {MODES[k] : k \in 1..Len(MODES)}

\* the session of the new run is the fresh one: every entry pending
FreshSession ==
    /\ last = "started"
    /\ done = FreshDone(files)
    /\ contents = EmptyMap
    /\ cursor = -1
    /\ show_remaining_only = FALSE

\* the record is structurally inconsistent: a field is missing or of the
\* wrong type, the flags have the wrong length, or the mode is unknown
Inconsistent(f) ==
    \/ \E fld \in Fields : f.shape[fld] # "ok"
    \/ Len(f.done) # Len(files)
    \/ f.mode \notin ModeSet

Unusable(f) ==
    \/ f.shape["done"] # "ok"
    \/ Len(f.done) # Len(files)
    \/ f.shape["contents"] # "ok"

BundleBody == SubSeq(bundle.text, 4, Len(bundle.text))

\* the inventory paths that have stored content, in inventory order
WithContent == SelectSeq(files, LAMBDA p : p \in DOMAIN contents)

BeginMarker(p) == "=== FILE: " \o p \o " ===\n"
EndMarker(p) == "=== END FILE: " \o p \o " ===\n"

\* the sequences of groups for the paths ps: begin marker, the stored
\* content with or without a line terminator after it, end marker, blank line
RECURSIVE GroupSequences(_)
GroupSequences(ps) ==
    IF ps = <<>> THEN {<<>>}
    ELSE {<<BeginMarker(Head(ps))>> \o contents[Head(ps)] \o t
              \o <<EndMarker(Head(ps)), "\n">> \o rest :
            t \in {<<>>, <<"\n">>}, rest \in GroupSequences(Tail(ps))}

\* C16: the body of the bundle is one group for each inventory path with
\* stored content, in inventory order; a group is the begin marker of the
\* path, its stored content (closed by a line terminator), the end marker
\* of the path and a blank line; a path without content has no group.
C16_OneGroupPerContent ==
    pc = "done" =>
        /\ bundle.kind = "text"
        /\ BundleBody \in GroupSequences(WithContent)

C16_Witness ==
    /\ pc = "done"
    /\ bundle.kind = "text"
    /\ Len(files) >= 2
    /\ files[1] \notin DOMAIN contents
    /\ files[2] \in DOMAIN contents

\* what is written between the markers for a stored content: the content,
\* and one line terminator when it does not end with one; empty says
\* whether the empty content counts as not ending with one
Written(body, empty) ==
    IF body = <<>> THEN (IF empty THEN <<"\n">> ELSE <<>>)
    ELSE IF body[Len(body)] = "\n" THEN body
    ELSE body \o <<"\n">>

RECURSIVE TerminatedGroups(_, _)
TerminatedGroups(ps, empty) ==
    IF ps = <<>> THEN <<>>
    ELSE <<BeginMarker(Head(ps))>> \o Written(contents[Head(ps)], empty)
         \o <<EndMarker(Head(ps)), "\n">> \o TerminatedGroups(Tail(ps), empty)

\* inventory [a.py, b.sql] with contents "X\n" and "Y"
TwoFiles ==
    /\ files = <<"a.py", "b.sql">>
    /\ contents = [p \in {"a.py", "b.sql"} |->
                     IF p = "a.py" THEN <<"X", "\n">> ELSE <<"Y">>]

TwoFilesBody ==
    <<"=== FILE: a.py ===\n", "X", "\n", "=== END FILE: a.py ===\n", "\n",
      "=== FILE: b.sql ===\n", "Y", "\n", "=== END FILE: b.sql ===\n", "\n">>

\* C17 as stated: in every group what is written between the markers ends
\* with a line terminator, for every stored content, the empty one
\* included: one is appended when the content does not end with one.
C17_EveryContentTerminated ==
    pc = "done" =>
        /\ BundleBody = TerminatedGroups(WithContent, TRUE)
        /\ TwoFiles => BundleBody = TwoFilesBody

\* C17: in every group a stored content that is not empty is followed by
\* one line terminator when it does not end with one and by none when it
\* does; for the empty content nothing is written between the markers; so
\* every end marker starts a line.  For [a.py, b.sql] with "X\n" and "Y"
\* the body is the a.py group with "X\n" and the b.sql group with "Y\n".
C17_NonEmptyContentTerminated ==
    pc = "done" =>
        /\ BundleBody = TerminatedGroups(WithContent, FALSE)
        /\ TwoFiles => BundleBody = TwoFilesBody
        /\ \A k \in 2..Len(BundleBody) :
             (\E p \in PathSet(files) : BundleBody[k] = EndMarker(p)) =>
                 \/ BundleBody[k - 1] = "\n"
                 \/ \E p \in PathSet(files) : BundleBody[k - 1] = BeginMarker(p)

C17_Witness ==
    /\ pc = "done"
    /\ Len(files) >= 2
    /\ DOMAIN contents = PathSet(files)
    /\ contents[files[1]] = <<>>
    /\ contents[files[2]] = <<"Y">>

\* C18: when an entry is taken for acquisition the method is the one of the
\* command ("a N" / "p N") if it names one, else the armed override if
\* there is one, else Manual Capture in Manual (paste) mode and Direct Read
\* in Auto and Hybrid mode.
C18_EffectiveMethod ==
    [][MethodChosen =>
            LET method == IF pc' = "auto_read" THEN "a" ELSE "p"
            IN  /\ action' = method
                /\ method = IF cmd'.a # "none" THEN cmd'.a
                            ELSE IF next_action_override # "none"
                                 THEN next_action_override
                            ELSE IF mode = MODE_PASTE THEN "p" ELSE "a"]_vars

C18_Witness ==
    /\ pc = "capture"
    /\ action = "p"
    /\ mode = MODE_HYBRID
    /\ cmd.kind = "advance"
    /\ last = "selected"

\* how far index i lies ahead of index s on the circle of the inventory
Ahead(i, s) == (i - s + Len(done)) % Len(done)

\* C19: the empty command takes the pending entry that comes first on the
\* circle from cursor+1 (from 0 when the cursor is unset); the entry is not
\* done, so there is no overwrite question.  When no entry is pending the
\* loop says so and is back at the prompt with flags, contents, cursor,
\* filter, mode and checkpoint unchanged.
C19_AdvanceCircular ==
    [][pc = "prompt" /\ cmd'.kind = "advance" =>
            IF Pending = {}
            THEN /\ pc' = "prompt"
                 /\ last' = "all_done"
                 /\ UNCHANGED <<session, disk, next_action_override>>
            ELSE LET s == IF cursor = -1 THEN 0 ELSE (cursor + 1) % Len(done)
                 IN  /\ pc' \in {"auto_read", "capture"}
                     /\ idx' \in Pending
                     /\ \A j \in Pending : Ahead(idx', s) <= Ahead(j, s)
                     /\ UNCHANGED <<session, disk>>]_vars

C19_Witness ==
    /\ pc \in {"auto_read", "capture"}
    /\ cmd.kind = "advance"
    /\ cursor >= 0
    /\ cursor < Len(files) - 1
    /\ idx < cursor
    /\ \A i \in (cursor + 1)..(Len(files) - 1) : At(done, i)

\* Hybrid -> Manual -> Auto -> Hybrid
ModeAfter(m) ==
    CASE m = MODE_HYBRID -> MODE_PASTE
      [] m = MODE_PASTE -> MODE_AUTO
      [] m = MODE_AUTO -> MODE_HYBRID

\* C20: m takes the mode from Hybrid to Manual, from Manual to Auto and
\* from Auto to Hybrid (three times round is the mode it started from); r
\* negates the filter.  Each goes on to save_state, so that back at the
\* prompt the checkpoint is the record of the state with the new value, and
\* changes no flag, content or cursor and not the armed override; neither
\* starts an acquisition.
C20_CycleAndToggle ==
    /\ [][pc = "prompt" /\ cmd'.kind = "m" =>
            /\ mode' = ModeAfter(mode)
            /\ cycle_mode(cycle_mode(mode')) = mode
            /\ pc' = "save_open"
            /\ UNCHANGED <<done, contents, cursor, show_remaining_only,
                           next_action_override, disk>>]_vars
    /\ [][pc = "prompt" /\ cmd'.kind = "r" =>
            /\ show_remaining_only' = ~show_remaining_only
            /\ pc' = "save_open"
            /\ UNCHANGED <<done, contents, cursor, mode,
                           next_action_override, disk>>]_vars
    /\ [][SessionStep /\ pc \in SavePcs /\ cmd.kind \in {"m", "r"} /\ ~in_handler' =>
            /\ pc' \in (SavePcs \cup {"prompt"})
            /\ UNCHANGED <<session, next_action_override>>]_vars
    /\ [](pc = "prompt" /\ cmd.kind \in {"m", "r"} => state_file = CurrentRecord)

C20_Witness ==
    /\ pc = "prompt"
    /\ cmd.kind = "m"
    /\ mode = MODE_AUTO
    /\ next_action_override = "a"
    /\ state_file = CurrentRecord
    /\ \E i \in Indices : At(done, i)

\* the start of a run: main() up to its first command prompt
RunStarts == pc \in EndPcs /\ pc' = "prompt"

\* C21: a run that finds a checkpoint load_state accepts starts with the
\* flags, contents, cursor and filter load_state returns for it and with
\* the mode the operator picked for this run, whatever mode the checkpoint
\* holds; the checkpoint is left as found, and every later write of the
\* checkpoint carries the mode of the session.
C21_ModeOnResume ==
    [][/\ RunStarts =>
            LET r == load_state(state_file, files, scan_dirs_abs,
                                compute_rel_root(scan_dirs_abs))
            IN  /\ cmd'.kind = "mode"
                /\ mode' = cmd'.a
                /\ state_file' = state_file
                /\ r.ok => /\ last' = "resumed"
                           /\ done' = r.done
                           /\ contents' = r.contents
                           /\ cursor' = r.cursor
                           /\ show_remaining_only' = r.show_remaining_only
       /\ state_file' # state_file => state_file'.mode = mode]_vars

C21_Witness ==
    /\ pc = "prompt"
    /\ last = "resumed"
    /\ cmd = Command("mode", MODE_PASTE, NoIdx)
    /\ mode = MODE_PASTE
    /\ state_file.mode = MODE_HYBRID
    /\ \E i \in Indices : At(done, i)
    /\ cursor >= 0

\* C22: no step of a session turns a flag back to pending or removes the
\* content of a path; the flags are as many as the inventory paths, the
\* keys of contents are inventory paths, the cursor is -1 or an index of
\* the inventory, and the entry at a set cursor is done.
C22_ProgressMonotonic ==
    /\ [][(done' # done \/ contents' # contents) /\ SessionStep =>
            /\ \A i \in Indices : At(done, i) => At(done', i)
            /\ DOMAIN contents \subseteq DOMAIN contents']_vars
    /\ [](/\ Len(done) = Len(files)
          /\ \A k \in 1..Len(done) : done[k] \in BOOLEAN
          /\ DOMAIN contents \subseteq PathSet(files)
          /\ cursor \in -1..(Len(files) - 1)
          /\ cursor >= 0 => At(done, cursor))

C22_Witness ==
    /\ pc = "prompt"
    /\ last \in AcqOutcomes
    /\ \A i \in Indices : At(done, i) /\ HasContent(contents, i)
    /\ cursor = 0
    /\ Len(files) >= 2

\* C23: when the input stream has ended while the loop is at the command
\* prompt, the run comes to its normal end with the bundle written, whether
\* or not an entry is pending.
C23_EofTerminates ==
    <>(pc = "done" /\ bundle.kind = "text")

\* entry i has been taken for acquisition
Taken(i) == idx = i /\ pc \in {"auto_read", "capture"}

\* the loop is back at the prompt because a read failed and no capture
\* followed
ReadGaveUp == pc = "prompt" /\ last \in {"read_failed", "fallback_declined"}

\* the pending entry of flags d that comes first on the circle from c+1
FirstAhead(d, c) ==
    LET s == IF c = -1 THEN 0 ELSE (c + 1) % Len(d)
        P == {i \in 0..(Len(d) - 1) : ~At(d, i)}
    IN  CHOOSE i \in P : \A j \in P : (i - s + Len(d)) % Len(d) <= (j - s + Len(d)) % Len(d)

====
